---- MODULE Spec2Model ----
(***************************************************************************)
(* A model of lrcput (src/lrcput.py): the filename heuristic, the LRCLib   *)
(* lookup client and the two batch operations (embed_lrc and               *)
(* embed_lrclib_batch) with the manual resolution pass.                    *)
(*                                                                         *)
(* Python text is modelled as a tuple of one-character strings, Python's   *)
(* None as the tuple None below (no text holds a several-letter element).  *)
(***************************************************************************)
EXTENDS Integers, Sequences, FiniteSets, TLC

VARIABLES
    p_path,      \* parse_artist_title_from_filename: the argument
    p_out,       \* ... and what it returned (Unset before the call)
    l_query,     \* fetch_lyrics_from_lrclib: the arguments (artist, title, duration)
    l_served,    \* the responses the remote service gave, one per request issued
    l_out,       \* what the call returned: [result, requests] (result Unset before)
    w_file,      \* embed_lyrics_text_to_file: the file it is called on
    w_payload,   \* ... the lyrics argument of every call
    w_calls,     \* history: one record per call made on w_file so far
    mode,          \* the batch operation called: "embed_lrc" or "embed_lrclib_batch"
    dir_exists,    \* whether the directory argument names a directory
    skip_existing, \* the flags of the call
    reduce_lrc,
    fs,            \* the files the walk visits: ext, stored lyrics, companion
    pc,            \* "call", "scan", "manual", "returned" or "raised"
    audio_files,   \* the list the walk builds (indices into fs)
    i,             \* position of the scan loop in audio_files
    embedded,      \* embedded_lyrics_files / embedded
    failed,        \* failed_files / failed (a file's index stands for its basename)
    needs_manual,  \* the deferred files
    j,             \* position of the resolver's loop in its file_list
    count,         \* the resolver's count
    result,        \* the tuple returned
    skipped,       \* history: how often the scan took the "skipped" branch
    last           \* history: what the step just taken did

lookupVars == <<p_path, p_out, l_query, l_served, l_out>>
batchVars == <<mode, dir_exists, skip_existing, reduce_lrc, fs, pc,
               audio_files, i, embedded, failed, needs_manual, j, count, result,
               skipped, last>>
writeVars == <<w_file, w_payload, w_calls>>
vars == <<lookupVars, batchVars, writeVars>>

-----------------------------------------------------------------------------
(* Bounds *)

\* longest path given to the filename heuristic
MaxPathLen == 5
\* most candidate records in a /search answer
MaxItems == 2
\* most files under the directory
MaxFiles == 2

-----------------------------------------------------------------------------
(* Python values *)

None == <<"None">>
Unset == <<"Unset">>

\* a test that takes the empty string for a value
TruthyNotNone(v) == v # None

\* bool(v) of an Optional[str]
Truthy(v) == v # None /\ v # <<>>

\* Python's `a or b`
Or(a, b) == IF Truthy(a) THEN a ELSE b

\* Optional[int] duration: None is encoded as NoDuration, a duration is >= 0
NoDuration == -1
TruthyInt(d) == d # NoDuration /\ d # 0

Digit(d) == <<"0", "1", "2", "3", "4", "5", "6", "7", "8", "9">>[d + 1]

\* str(n) of a non-negative int
RECURSIVE Str(_)
Str(n) == IF n < 10 THEN <<Digit(n)>> ELSE Str(n \div 10) \o <<Digit(n % 10)>>

-----------------------------------------------------------------------------
(* str methods *)

\* s.find(sub) from position k, 1-based; 0 when sub does not occur
RECURSIVE Find(_, _, _)
Find(s, sub, k) ==
    IF k + Len(sub) - 1 > Len(s) THEN 0
    ELSE IF SubSeq(s, k, k + Len(sub) - 1) = sub THEN k
    ELSE Find(s, sub, k + 1)

\* sub in s
Contains(s, sub) == Find(s, sub, 1) # 0

\* s.split(sep, 1)
Split1(s, sep) ==
    LET k == Find(s, sep, 1)
    IN  IF k = 0 THEN <<s>>
        ELSE <<SubSeq(s, 1, k - 1), SubSeq(s, k + Len(sep), Len(s))>>

RECURSIVE LStrip(_)
LStrip(s) == IF s # <<>> /\ Head(s) = " " THEN LStrip(Tail(s)) ELSE s

RECURSIVE RStrip(_)
RStrip(s) ==
    IF s # <<>> /\ s[Len(s)] = " " THEN RStrip(SubSeq(s, 1, Len(s) - 1)) ELSE s

\* s.strip()
Strip(s) == LStrip(RStrip(s))

\* s.rfind(c) for a character set cs, 1-based; 0 when none occurs
RECURSIVE RFind(_, _, _)
RFind(s, cs, k) ==
    IF k = 0 THEN 0 ELSE IF s[k] \in cs THEN k ELSE RFind(s, cs, k - 1)

\* re.split(r"[\\/]", path)[-1]
ReSplitLast(path) ==
    SubSeq(path, RFind(path, {"/", "\\"}, Len(path)) + 1, Len(path))

\* os.path.splitext(p)[0] of a component without separators: the extension
\* starts at the last dot, unless only dots precede it
RECURSIVE SplitextScan(_, _, _)
SplitextScan(p, filenameIndex, dotIndex) ==
    IF filenameIndex >= dotIndex THEN p
    ELSE IF p[filenameIndex] # "." THEN SubSeq(p, 1, dotIndex - 1)
    ELSE SplitextScan(p, filenameIndex + 1, dotIndex)

SplitextRoot(p) ==
    LET dotIndex == RFind(p, {"."}, Len(p))
    IN  IF dotIndex > 0 THEN SplitextScan(p, 1, dotIndex) ELSE p

-----------------------------------------------------------------------------
(* parse_artist_title_from_filename *)

\* the variant that tries "_" before " - "
parse_underscore_first(path) ==
    LET base == SplitextRoot(ReSplitLast(path))
        c1 == IF Contains(base, <<"_">>)
              THEN LET parts == Split1(base, <<"_">>)
                   IN  IF Len(parts) = 2
                       THEN <<<<Strip(parts[1]), Strip(parts[2])>>>> ELSE <<>>
              ELSE <<>>
        c2 == IF Contains(base, <<" ", "-", " ">>) /\ c1 = <<>>
              THEN LET parts == Split1(base, <<" ", "-", " ">>)
                   IN  IF Len(parts) = 2
                       THEN c1 \o <<<<Strip(parts[1]), Strip(parts[2])>>>> ELSE c1
              ELSE c1
        c3 == IF c2 = <<>> THEN c2 \o <<<<None, Strip(base)>>>> ELSE c2
    IN  c3[1]

parse_artist_title_from_filename(path) ==
    LET base == SplitextRoot(ReSplitLast(path))
        \* candidates after the " - " test
        c1 == IF Contains(base, <<" ", "-", " ">>)
              THEN LET parts == Split1(base, <<" ", "-", " ">>)
                   IN  IF Len(parts) = 2
                       THEN <<<<Strip(parts[1]), Strip(parts[2])>>>> ELSE <<>>
              ELSE <<>>
        \* ... after the "_" test
        c2 == IF Contains(base, <<"_">>) /\ c1 = <<>>
              THEN LET parts == Split1(base, <<"_">>)
                   IN  IF Len(parts) = 2
                       THEN c1 \o <<<<Strip(parts[1]), Strip(parts[2])>>>> ELSE c1
              ELSE c1
        \* ... after the fallback
        c3 == IF c2 = <<>> THEN c2 \o <<<<None, Strip(base)>>>> ELSE c2
    IN  c3[1]

PathChars == {"a", " ", "-", "_", ".", "/", "\\"}

Paths == UNION {[1..n -> PathChars] : n \in 0..MaxPathLen}

-----------------------------------------------------------------------------
(* fetch_lyrics_from_lrclib *)

\* A JSON object as the code reads it: data.get(key) is None for a missing
\* key and for null
Obj(synced, plain) == [syncedLyrics |-> synced, plainLyrics |-> plain]

\* r.json(): raises on a malformed body, else an object or a list of objects
Malformed == [type |-> "malformed"]
JObject(o) == [type |-> "object", obj |-> o]
JList(items) == [type |-> "list", items |-> items]

\* requests.get: raises (network error, timeout) or answers with a status
Raises == [raises |-> TRUE]
Http(status, json) == [raises |-> FALSE, status_code |-> status, json |-> json]

\* the truth test of line 254 with `and` for `or`
HasQueryEither(artist, title) == Truthy(artist) \/ Truthy(title)

\* not (not artist or not title)
HasQuery(artist, title) == ~(~Truthy(artist) \/ ~Truthy(title))

\* plainLyrics preferred to syncedLyrics
LyricsOfPlainFirst(o) == Or(o.plainLyrics, o.syncedLyrics)

\* o.get('syncedLyrics') or o.get('plainLyrics')
LyricsOf(o) == Or(o.syncedLyrics, o.plainLyrics)

\* always the first candidate
PickFirst(items) == items[1]

\* the for loop of lines 275-278: index of the first item with syncedLyrics
RECURSIVE FirstSynced(_, _)
FirstSynced(items, k) ==
    IF k > Len(items) THEN 0
    ELSE IF Truthy(items[k].syncedLyrics) THEN k
    ELSE FirstSynced(items, k + 1)

\* best: the first item with syncedLyrics, else items[0]
PickBest(items) ==
    LET k == FirstSynced(items, 1)
    IN  IF k # 0 THEN items[k] ELSE items[1]

Params(artist, title, duration) ==
    [track_name |-> title, artist_name |-> artist,
     duration |-> IF TruthyInt(duration) THEN Str(duration) ELSE None]

Request(url, params) == [url |-> url, params |-> params]

\* The call, given the answers the service has for /get and /search: what it
\* returns and the requests it issued, in order.
fetch_lyrics_from_lrclib(artist, title, duration, getResp, searchResp) ==
    IF ~HasQuery(artist, title) THEN [result |-> None, requests |-> <<>>]
    ELSE
    LET params == Params(artist, title, duration)
        get == Request("/get", params)
        search == Request("/search", params)
        \* requests.get raised, r.json() raised, or data.get raised (no dict)
        getRaised ==
            \/ getResp.raises
            \/ getResp.status_code = 200 /\ getResp.json.type # "object"
        searchRaised ==
            \/ searchResp.raises
            \/ searchResp.status_code = 200 /\ searchResp.json.type = "malformed"
    IN  IF getRaised THEN [result |-> None, requests |-> <<get>>]
        ELSE IF getResp.status_code = 200 /\ Truthy(LyricsOf(getResp.json.obj))
        THEN [result |-> LyricsOf(getResp.json.obj), requests |-> <<get>>]
        ELSE IF searchRaised THEN [result |-> None, requests |-> <<get, search>>]
        ELSE IF /\ searchResp.status_code = 200
                /\ searchResp.json.type = "list"
                /\ searchResp.json.items # <<>>
        THEN [result |-> LyricsOf(PickBest(searchResp.json.items)),
              requests |-> <<get, search>>]
        ELSE [result |-> None, requests |-> <<get, search>>]

\* the inputs of the lookup
Texts == {None, <<>>, <<"a">>}
Durations == {NoDuration, 0, 215}
SyncedValues == {None, <<>>, <<"x">>, <<"y">>}
PlainValues == {None, <<>>, <<"p">>}
Objects == {Obj(s, p) : s \in SyncedValues, p \in PlainValues}
ItemLists == UNION {[1..n -> Objects] : n \in 0..MaxItems}
Statuses == {200, 404}
GetResponses ==
    {Raises} \cup {Http(st, body) : st \in Statuses,
                   body \in {Malformed, JList(<<>>)} \cup {JObject(o) : o \in Objects}}
SearchResponses ==
    {Raises} \cup {Http(st, body) : st \in Statuses,
                   body \in {Malformed, JObject(Obj(None, None))}
                         \cup {JList(l) : l \in ItemLists}}

-----------------------------------------------------------------------------
(* The heuristic and the lookup as operations *)

InitParse == p_path \in Paths /\ p_out = Unset
IdleParse == p_path = <<>> /\ p_out = Unset
InitLookup ==
    /\ l_query \in [artist : Texts, title : Texts, duration : Durations]
    /\ l_served = <<>>
    /\ l_out = [result |-> Unset, requests |-> <<>>]
IdleLookup ==
    /\ l_query = [artist |-> None, title |-> None, duration |-> NoDuration]
    /\ l_served = <<>>
    /\ l_out = [result |-> Unset, requests |-> <<>>]

Parse ==
    /\ p_out = Unset
    /\ p_out' = parse_artist_title_from_filename(p_path)
    /\ UNCHANGED <<p_path, l_query, l_served, l_out, batchVars, writeVars>>

Fetch ==
    /\ l_out.result = Unset
    /\ \E g \in GetResponses, s \in SearchResponses :
         LET r == fetch_lyrics_from_lrclib(l_query.artist, l_query.title,
                                           l_query.duration, g, s)
         IN  /\ l_out' = r
             /\ l_served' = SubSeq(<<g, s>>, 1, Len(r.requests))
    /\ UNCHANGED <<p_path, p_out, l_query, batchVars, writeVars>>

-----------------------------------------------------------------------------
(* Files and the tag libraries *)

\* "wav" stands for the extensions without a native lyrics field
\* (wav, ogg, aac, wma, alac), "txt" for any other file
NativeExts == {"flac", "mp3", "m4a"}
Exts == NativeExts \cup {"wav", "txt"}

\* the text of every companion .lrc file, and lyrics embedded earlier
LrcText == <<"l">>
OldText == <<"o">>

\* A file: its extension, the lyrics its tags hold (None: no lyrics field),
\* the state of its companion .lrc ("absent", "present", "removed", "failed"
\* for renamed to .lrc.failed) and the lyrics of its sibling _converted.mp3
\* (None: no such file, Untagged: a file without a lyrics frame).
Untagged == <<"Untagged">>
File(ext, lyrics, lrc) ==
    [ext |-> ext, lyrics |-> lyrics, lrc |-> lrc, conv |-> None]

Files ==
    {File(e, ly, c) : e \in NativeExts, ly \in {None, OldText},
                      c \in {"absent", "present"}}
    \cup {File("wav", None, "absent"), File("txt", None, "absent")}

\* The directories given to an operation. No line of embed_lrclib_batch names
\* a companion file, so its directories are drawn without them.
FilesOf(op) ==
    IF op = "embed_lrc" THEN Files ELSE {f \in Files : f.lrc = "absent"}

\* FLAC(path), eyed3.load(path), MP4(path): the object loaded from a file
\* by the skip test, given that the load did not raise. eyed3.load gives None
\* for a file it does not recognise (outcome "none").
NoAudio == [type |-> "NoneType", lyrics |-> None]
LoadAudio(file, outcome) ==
    IF file.ext = "flac" THEN [type |-> "FLAC", lyrics |-> file.lyrics]
    ELSE IF file.ext = "mp3"
    THEN IF outcome = "none" THEN NoAudio
         ELSE [type |-> "AudioFile", lyrics |-> file.lyrics]
    ELSE IF file.ext = "m4a" THEN [type |-> "MP4", lyrics |-> file.lyrics]
    ELSE NoAudio

LoadOutcomes(file) ==
    IF file.ext = "mp3" THEN {"ok", "none", "raise"}
    ELSE IF file.ext \in NativeExts THEN {"ok", "raise"}
    ELSE {"ok"}

\* a test that never finds lyrics
has_no_lyrics_test(audio) == FALSE

has_embedded_lyrics(audio) ==
    IF audio.type = "FLAC" THEN audio.lyrics # None
    ELSE IF audio.type = "MP4" THEN audio.lyrics # None
    ELSE IF audio.type = "AudioFile" THEN audio.lyrics # None
    ELSE FALSE

\* embed_lyrics_text_to_file: the file afterwards, whether the call raised,
\* and whether it returned the path of a converted file. outcome: "ok",
\* "raise" (the tag library, or the transcoder, failed) or "tag_raise" (the
\* transcoder succeeded and tagging its output failed).
WriteOutcomes(file) ==
    IF file.ext \in NativeExts THEN {"ok", "raise"} ELSE {"ok", "raise", "tag_raise"}

\* a writer that adds the text to the lyrics already stored
embed_lyrics_appending(file, lyrics, outcome) ==
    IF outcome # "ok"
    THEN [file |-> file, raised |-> TRUE, converted |-> FALSE]
    ELSE IF file.ext \in NativeExts
    THEN [file |-> [file EXCEPT !.lyrics = (IF @ = None THEN <<>> ELSE @) \o lyrics],
          raised |-> FALSE, converted |-> FALSE]
    ELSE [file |-> [file EXCEPT !.conv = (IF @ = None THEN <<>> ELSE @) \o lyrics],
          raised |-> FALSE, converted |-> TRUE]

embed_lyrics_text_to_file(file, lyrics, outcome) ==
    IF file.ext \in NativeExts
    THEN IF outcome = "ok"
         THEN [file |-> [file EXCEPT !.lyrics = lyrics], raised |-> FALSE,
               converted |-> FALSE]
         ELSE [file |-> file, raised |-> TRUE, converted |-> FALSE]
    ELSE IF outcome = "raise"
         THEN [file |-> file, raised |-> TRUE, converted |-> FALSE]
         ELSE IF outcome = "tag_raise"
         THEN [file |-> [file EXCEPT !.conv = Untagged], raised |-> TRUE,
               converted |-> FALSE]
         ELSE [file |-> [file EXCEPT !.conv = lyrics], raised |-> FALSE,
               converted |-> TRUE]

\* Calls of embed_lyrics_text_to_file on one file, each with the same lyrics.
\* The file may have a sibling _converted.mp3 left by an earlier run.
MaxCalls == 2
Payloads == {<<>>, LrcText, <<"x">>}
WriteFiles ==
    {f \in Files : f.lrc = "absent"}
    \cup {[File(e, None, "absent") EXCEPT !.conv = OldText] : e \in {"wav", "txt"}}

InitWrite ==
    /\ w_file \in WriteFiles
    /\ w_payload \in Payloads
    /\ w_calls = <<>>
IdleWrite ==
    /\ w_file = File("txt", None, "absent")
    /\ w_payload = <<>>
    /\ w_calls = <<>>

Write ==
    /\ Len(w_calls) < MaxCalls
    /\ \E outcome \in WriteOutcomes(w_file) :
         \E w \in {embed_lyrics_text_to_file(w_file, w_payload, outcome)} :
           /\ w_file' = w.file
           /\ w_calls' = Append(w_calls, [before |-> w_file, after |-> w.file,
                                          raised |-> w.raised,
                                          converted |-> w.converted])
    /\ UNCHANGED <<w_payload, lookupVars, batchVars>>

-----------------------------------------------------------------------------
(* The batch operations *)

\* The loop over os.walk: fs lists the files the walk visits, in its order
\* (those of the directory and, under recursive, those below it); the walk of
\* a directory that does not exist visits nothing and raises nothing.
RECURSIVE Indices(_, _, _)
Indices(files, k, exts) ==
    IF k > Len(files) THEN <<>>
    ELSE (IF files[k].ext \in exts THEN <<k>> ELSE <<>>) \o Indices(files, k + 1, exts)

AcceptedExts(op) ==
    IF op = "embed_lrc" THEN NativeExts ELSE NativeExts \cup {"wav"}

Walk(op, exists, files) ==
    IF ~exists THEN <<>> ELSE Indices(files, 1, AcceptedExts(op))

\* history of a step: the operation, the file, how the load of the skip test
\* and the rename of the except clause went ("n/a": not tried), what the step
\* came to, the endpoints of the lookup requests it issued and, for a step
\* of the scan of embed_lrclib_batch that got there, the artist and title it
\* had after line 333
NoIdentity == [artist |-> None, title |-> None]
NoStep ==
    [op |-> "none", file |-> 0, load |-> "n/a", event |-> "none", move |-> "n/a",
     requests |-> <<>>, identity |-> NoIdentity]
Step(op, f, load, event, move, requests) ==
    [op |-> op, file |-> f, load |-> load, event |-> event, move |-> move,
     requests |-> [k \in 1..Len(requests) |-> requests[k].url],
     identity |-> NoIdentity]
Having(step, at) == [step EXCEPT !.identity = at]

InitBatch ==
    /\ mode \in {"embed_lrc", "embed_lrclib_batch"}
    /\ dir_exists \in BOOLEAN
    /\ skip_existing \in BOOLEAN
    /\ reduce_lrc \in BOOLEAN
    /\ mode = "embed_lrclib_batch" => ~reduce_lrc
    /\ fs \in UNION {[1..n -> FilesOf(mode)] : n \in 0..MaxFiles}
    /\ dir_exists \/ fs = <<>>
    /\ pc = "call"
    /\ audio_files = <<>>
    /\ i = 1
    /\ embedded = 0
    /\ failed = <<>>
    /\ needs_manual = <<>>
    /\ j = 1
    /\ count = 0
    /\ result = [total |-> 0, embedded |-> 0, failed |-> <<>>]
    /\ skipped = 0
    /\ last = NoStep

IdleBatch ==
    /\ mode = "embed_lrc"
    /\ dir_exists = FALSE
    /\ skip_existing = FALSE
    /\ reduce_lrc = FALSE
    /\ fs = <<>>
    /\ pc = "idle"
    /\ audio_files = <<>>
    /\ i = 1
    /\ embedded = 0
    /\ failed = <<>>
    /\ needs_manual = <<>>
    /\ j = 1
    /\ count = 0
    /\ result = [total |-> 0, embedded |-> 0, failed |-> <<>>]
    /\ skipped = 0
    /\ last = NoStep

inputs == <<mode, dir_exists, skip_existing, reduce_lrc>>

\* lines 115-121 and 291-302: the walk that builds audio_files
Call ==
    /\ pc = "call"
    /\ audio_files' = Walk(mode, dir_exists, fs)
    /\ pc' = "scan"
    /\ UNCHANGED <<inputs, fs, i, embedded, failed, needs_manual, j, count,
                   result, skipped, last, lookupVars, writeVars>>

\* os.path.exists(lrc_path) taken to hold of every file
CompanionAlways(file) == TRUE

\* os.path.exists(lrc_path)
CompanionExists(file) == file.lrc = "present"

\* the except clause of embed_lrc (lines 158-166): the file is recorded as
\* failed and its companion, if it is still there, renamed; a rename that
\* raises leaves the loop and the function
LocalExcept(f, file, load, event) ==
    /\ failed' = Append(failed, f)
    /\ IF CompanionExists(file)
       THEN \E move \in {"ok", "raise"} :
              /\ last' = Step("local", f, load, event, move, <<>>)
              /\ IF move = "ok"
                 THEN /\ fs' = [fs EXCEPT ![f] = [file EXCEPT !.lrc = "failed"]]
                      /\ i' = i + 1
                      /\ pc' = pc
                 ELSE /\ fs' = [fs EXCEPT ![f] = file]
                      /\ i' = i
                      /\ pc' = "raised"
       ELSE /\ last' = Step("local", f, load, event, "n/a", <<>>)
            /\ fs' = [fs EXCEPT ![f] = file]
            /\ i' = i + 1
            /\ pc' = pc

\* lines 143-166: the try statement of embed_lrc for one file
LocalTry(f, load) ==
    \E read \in {"ok", "raise"} :
      IF read = "raise"
      THEN /\ LocalExcept(f, fs[f], load, "read_failed")
           /\ UNCHANGED <<embedded, skipped>>
      ELSE \E write \in WriteOutcomes(fs[f]) :
             LET w == embed_lyrics_text_to_file(fs[f], LrcText, write)
             IN  IF w.raised
                 THEN /\ LocalExcept(f, w.file, load, "write_failed")
                      /\ UNCHANGED <<embedded, skipped>>
                 ELSE /\ embedded' = embedded + 1
                      /\ UNCHANGED skipped
                      /\ IF reduce_lrc
                         THEN \E remove \in {"ok", "raise"} :
                                IF remove = "ok"
                                THEN /\ fs' = [fs EXCEPT ![f] = [w.file EXCEPT !.lrc = "removed"]]
                                     /\ last' = Step("local", f, load, "embedded_reduced", "n/a", <<>>)
                                     /\ i' = i + 1
                                     /\ UNCHANGED <<failed, pc>>
                                ELSE LocalExcept(f, w.file, load, "remove_failed")
                         ELSE /\ fs' = [fs EXCEPT ![f] = w.file]
                              /\ last' = Step("local", f, load, "embedded", "n/a", <<>>)
                              /\ i' = i + 1
                              /\ UNCHANGED <<failed, pc>>

\* lines 124-166: one iteration of the loop of embed_lrc
LocalFile ==
    /\ pc = "scan"
    /\ mode = "embed_lrc"
    /\ i <= Len(audio_files)
    /\ LET f == audio_files[i]
       IN  IF ~CompanionExists(fs[f])
           THEN /\ i' = i + 1
                /\ last' = Step("local", f, "n/a", "not_candidate", "n/a", <<>>)
                /\ UNCHANGED <<fs, pc, embedded, failed, skipped>>
           ELSE IF skip_existing
           THEN \E load \in LoadOutcomes(fs[f]) :
                  IF load = "raise"
                  THEN /\ pc' = "raised"
                       /\ last' = Step("local", f, load, "load_raised", "n/a", <<>>)
                       /\ UNCHANGED <<fs, i, embedded, failed, skipped>>
                  ELSE IF has_embedded_lyrics(LoadAudio(fs[f], load))
                  THEN /\ skipped' = skipped + 1
                       /\ i' = i + 1
                       /\ last' = Step("local", f, load, "skipped", "n/a", <<>>)
                       /\ UNCHANGED <<fs, pc, embedded, failed>>
                  ELSE LocalTry(f, load)
           ELSE LocalTry(f, "n/a")
    /\ UNCHANGED <<inputs, audio_files, needs_manual, j, count, result, lookupVars, writeVars>>

\* line 168
LocalReturn ==
    /\ pc = "scan"
    /\ mode = "embed_lrc"
    /\ i > Len(audio_files)
    /\ result' = [total |-> Len(audio_files), embedded |-> embedded, failed |-> failed]
    /\ pc' = "returned"
    /\ UNCHANGED <<inputs, fs, audio_files, i, embedded, failed, needs_manual, j,
                   count, skipped, last, lookupVars, writeVars>>

\* what read_tags_for_lrclib can return: the tags a file holds, or nothing
\* at all when reading them raised (the function swallows the error)
Tags(artist, title, duration) ==
    [artist |-> artist, title |-> title, duration |-> duration]
TagResults ==
    {Tags(None, None, NoDuration), Tags(<<"a">>, None, 215), Tags(None, <<"t">>, 215),
     Tags(<<"a">>, <<"t">>, 215)}

\* file names of the directory, without extension; the name of a file is
\* drawn when the scan first reads it
Stems == {<<"a", " ", "-", " ", "b">>, <<" ", "-", " ", "b">>, <<"s">>}
\* the name is read only when a tag is missing
StemsRead(tags) ==
    IF ~Truthy(tags.artist) \/ ~Truthy(tags.title) THEN Stems ELSE {<<"s">>}

ExtChars(ext) ==
    IF ext = "flac" THEN <<"f", "l", "a", "c">>
    ELSE IF ext = "mp3" THEN <<"m", "p", "3">>
    ELSE IF ext = "m4a" THEN <<"m", "4", "a">>
    ELSE IF ext = "wav" THEN <<"w", "a", "v">>
    ELSE <<"t", "x", "t">>

AudioPath(stem, ext) == <<"d", "/">> \o stem \o <<".">> \o ExtChars(ext)

\* the answers of the remote service during a batch
LookupText == <<"x">>
BatchGetResponses ==
    {Raises, Http(404, Malformed), Http(200, JObject(Obj(LookupText, None)))}
BatchSearchResponses ==
    {Http(404, Malformed), Http(200, JList(<<Obj(None, LookupText)>>))}

\* lines 326-333: the tags, completed from the file name
Completed(tags, f_artist, f_title) ==
    IF (~Truthy(tags.artist) \/ ~Truthy(tags.title))
       /\ (Truthy(f_artist) \/ Truthy(f_title))
    THEN [artist |-> Or(tags.artist, f_artist), title |-> Or(tags.title, f_title)]
    ELSE [artist |-> tags.artist, title |-> tags.title]
ArtistTitle(tags, path) ==
    LET parsed == parse_artist_title_from_filename(path)
    IN  Completed(tags, parsed[1], parsed[2])

\* lines 326-364: the rest of the try statement of embed_lrclib_batch for
\* one file, after the skip test
RemoteTry(f, load) ==
    \E tags \in TagResults : \E stem \in StemsRead(tags) :
      \E at \in {ArtistTitle(tags, AudioPath(stem, fs[f].ext))} :
          IF ~Truthy(at.artist) \/ ~Truthy(at.title)
          THEN /\ needs_manual' = Append(needs_manual, f)
               /\ last' = Having(Step("remote", f, load, "deferred", "n/a", <<>>), at)
               /\ UNCHANGED <<fs, embedded, failed, skipped>>
          ELSE \E g \in BatchGetResponses, s \in BatchSearchResponses :
                 \E r \in {fetch_lyrics_from_lrclib(at.artist, at.title, tags.duration, g, s)} :
                     IF ~Truthy(r.result)
                     THEN /\ failed' = Append(failed, f)
                          /\ last' = Having(Step("remote", f, load, "not_found", "n/a",
                                                 r.requests), at)
                          /\ UNCHANGED <<fs, embedded, needs_manual, skipped>>
                     ELSE \E write \in WriteOutcomes(fs[f]) :
                            \E w \in {embed_lyrics_text_to_file(fs[f], r.result, write)} :
                                /\ fs' = [fs EXCEPT ![f] = w.file]
                                /\ UNCHANGED <<needs_manual, skipped>>
                                /\ IF w.raised
                                   THEN /\ failed' = Append(failed, f)
                                        /\ last' = Having(Step("remote", f, load, "write_failed",
                                                               "n/a", r.requests), at)
                                        /\ UNCHANGED embedded
                                   ELSE /\ embedded' = embedded + 1
                                        /\ last' = Having(Step("remote", f, load, "embedded",
                                                               "n/a", r.requests), at)
                                        /\ UNCHANGED failed

\* lines 308-364: one iteration of the loop of embed_lrclib_batch; every
\* branch ends the iteration, the except clause included
RemoteFile ==
    /\ pc = "scan"
    /\ mode = "embed_lrclib_batch"
    /\ i <= Len(audio_files)
    /\ i' = i + 1
    /\ LET f == audio_files[i]
       IN  IF skip_existing
           THEN \E load \in LoadOutcomes(fs[f]) :
                  IF load = "raise"
                  THEN /\ failed' = Append(failed, f)
                       /\ last' = Step("remote", f, load, "load_raised", "n/a", <<>>)
                       /\ UNCHANGED <<fs, embedded, needs_manual, skipped>>
                  ELSE IF /\ LoadAudio(fs[f], load) # NoAudio
                          /\ has_embedded_lyrics(LoadAudio(fs[f], load))
                  THEN /\ skipped' = skipped + 1
                       /\ last' = Step("remote", f, load, "skipped", "n/a", <<>>)
                       /\ UNCHANGED <<fs, embedded, failed, needs_manual>>
                  ELSE RemoteTry(f, load)
           ELSE RemoteTry(f, "n/a")
    /\ UNCHANGED <<inputs, pc, audio_files, j, count, result, lookupVars, writeVars>>

\* a resolver called as soon as a file is deferred
ManualStartEarly ==
    /\ pc = "scan"
    /\ mode = "embed_lrclib_batch"
    /\ needs_manual # <<>>
    /\ pc' = "manual"
    /\ j' = 1
    /\ count' = 0
    /\ UNCHANGED <<inputs, fs, audio_files, i, embedded, failed, needs_manual,
                   result, skipped, last, lookupVars, writeVars>>

\* lines 367-369 and 375-379: the resolver is called with needs_manual
ManualStart ==
    /\ pc = "scan"
    /\ mode = "embed_lrclib_batch"
    /\ i > Len(audio_files)
    /\ needs_manual # <<>>
    /\ pc' = "manual"
    /\ j' = 1
    /\ count' = 0
    /\ UNCHANGED <<inputs, fs, audio_files, i, embedded, failed, needs_manual,
                   result, skipped, last, lookupVars, writeVars>>

\* what a prompt returns: None when cancelled, else the text entered
Answers == {None, <<" ">>, <<"a">>}

\* lines 380-403: one iteration of the loop of _manual_prompt_and_embed
ManualFile ==
    /\ pc = "manual"
    /\ j <= Len(needs_manual)
    /\ j' = j + 1
    /\ LET f == needs_manual[j]
       IN  \E artist \in Answers :
             IF artist = None
             THEN /\ last' = Step("manual", f, "n/a", "artist_cancelled", "n/a", <<>>)
                  /\ UNCHANGED <<fs, count>>
             ELSE \E title \in Answers :
                    IF title = None
                    THEN /\ last' = Step("manual", f, "n/a", "title_cancelled", "n/a", <<>>)
                         /\ UNCHANGED <<fs, count>>
                    ELSE \E g \in BatchGetResponses, s \in BatchSearchResponses :
                           LET r == fetch_lyrics_from_lrclib(Or(Strip(artist), None),
                                        Or(Strip(title), None), NoDuration, g, s)
                           IN  IF ~Truthy(r.result)
                               THEN /\ last' = Step("manual", f, "n/a", "not_found",
                                                    "n/a", r.requests)
                                    /\ UNCHANGED <<fs, count>>
                               ELSE \E write \in WriteOutcomes(fs[f]) :
                                      LET w == embed_lyrics_text_to_file(fs[f], r.result, write)
                                      IN  /\ fs' = [fs EXCEPT ![f] = w.file]
                                          /\ count' = IF w.raised THEN count ELSE count + 1
                                          /\ last' = Step("manual", f, "n/a",
                                                 IF w.raised THEN "write_failed" ELSE "embedded",
                                                 "n/a", r.requests)
    /\ UNCHANGED <<inputs, pc, audio_files, i, embedded, failed, needs_manual,
                   result, skipped, lookupVars, writeVars>>

\* lines 404-405 and 370-371: the resolver returns its count, which is added
\* to embedded, and the batch returns
ManualReturn ==
    /\ pc = "manual"
    /\ j > Len(needs_manual)
    /\ embedded' = embedded + count
    /\ result' = [total |-> Len(audio_files), embedded |-> embedded + count,
                  failed |-> failed]
    /\ pc' = "returned"
    /\ UNCHANGED <<inputs, fs, audio_files, i, failed, needs_manual, j, count,
                   skipped, last, lookupVars, writeVars>>

\* lines 367 and 371: nothing was deferred
RemoteReturn ==
    /\ pc = "scan"
    /\ mode = "embed_lrclib_batch"
    /\ i > Len(audio_files)
    /\ needs_manual = <<>>
    /\ result' = [total |-> Len(audio_files), embedded |-> embedded, failed |-> failed]
    /\ pc' = "returned"
    /\ UNCHANGED <<inputs, fs, audio_files, i, embedded, failed, needs_manual, j,
                   count, skipped, last, lookupVars, writeVars>>

Init == IdleParse /\ IdleLookup /\ IdleWrite /\ InitBatch
Next ==
    \/ Call
    \/ LocalFile
    \/ LocalReturn
    \/ RemoteFile
    \/ ManualStart
    \/ ManualFile
    \/ ManualReturn
    \/ RemoteReturn
Spec == Init /\ [][Next]_vars

\* one call of parse_artist_title_from_filename
ParseInit == InitParse /\ IdleLookup /\ IdleWrite /\ IdleBatch
SpecParse == ParseInit /\ [][Parse]_vars

\* one call of fetch_lyrics_from_lrclib
LookupInit == IdleParse /\ InitLookup /\ IdleWrite /\ IdleBatch
SpecLookup == LookupInit /\ [][Fetch]_vars

\* calls of embed_lyrics_text_to_file on one file
WriteInit == IdleParse /\ IdleLookup /\ InitWrite /\ IdleBatch
SpecWrite == WriteInit /\ [][Write]_vars

-----------------------------------------------------------------------------
(* Properties of the filename heuristic *)

Min(S) == CHOOSE x \in S : \A y \in S : x <= y
Max(S) == CHOOSE x \in S : \A y \in S : x >= y

\* the part of the path after its last '/' or '\'
RefComponent(path) ==
    LET seps == {k \in 1..Len(path) : path[k] \in {"/", "\\"}}
    IN  IF seps = {} THEN path ELSE SubSeq(path, Max(seps) + 1, Len(path))

\* the component without its extension (the last dot and what follows it,
\* when something other than a dot precedes that dot)
RefStem(c) ==
    LET dots == {k \in 1..Len(c) : c[k] = "."}
    IN  IF dots # {} /\ \E m \in 1..(Max(dots) - 1) : c[m] # "."
        THEN SubSeq(c, 1, Max(dots) - 1)
        ELSE c

RefTrim(s) ==
    LET ns == {k \in 1..Len(s) : s[k] # " "}
    IN  IF ns = {} THEN <<>> ELSE SubSeq(s, Min(ns), Max(ns))

RefOccurrences(s, sep) ==
    {k \in 1..(Len(s) - Len(sep) + 1) : \A d \in 1..Len(sep) : s[k + d - 1] = sep[d]}

RefSplit(s, sep) ==
    LET k == Min(RefOccurrences(s, sep))
    IN  <<RefTrim(SubSeq(s, 1, k - 1)), RefTrim(SubSeq(s, k + Len(sep), Len(s)))>>

RefParse(path) ==
    LET stem == RefStem(RefComponent(path))
    IN  IF RefOccurrences(stem, <<" ", "-", " ">>) # {}
        THEN RefSplit(stem, <<" ", "-", " ">>)
        ELSE IF RefOccurrences(stem, <<"_">>) # {} THEN RefSplit(stem, <<"_">>)
        ELSE <<None, RefTrim(stem)>>

\* C10: for every path the heuristic returns what the reference returns: the
\* stem of the last component split at the first " - ", else at the first
\* "_", else (absent, stem), both parts trimmed.
C10_ParseMatchesReference ==
    p_out # Unset => p_out = RefParse(p_path)

\* a parsed path whose stem holds both separators, the "_" first
C10_Witness ==
    /\ p_out # Unset
    /\ RefOccurrences(RefStem(RefComponent(p_path)), <<" ", "-", " ">>) # {}
    /\ RefOccurrences(RefStem(RefComponent(p_path)), <<"_">>) # {}
    /\ Min(RefOccurrences(RefStem(RefComponent(p_path)), <<"_">>))
         < Min(RefOccurrences(RefStem(RefComponent(p_path)), <<" ", "-", " ">>))
    /\ p_out[1] # None

-----------------------------------------------------------------------------
(* Properties of the lookup *)

Returned == l_out.result # Unset

\* the answer to the k-th request is a 200 carrying a JSON object / list
Is200Object(k) ==
    /\ Len(l_served) >= k
    /\ ~l_served[k].raises
    /\ l_served[k].status_code = 200
    /\ l_served[k].json.type = "object"

Is200List(k) ==
    /\ Len(l_served) >= k
    /\ ~l_served[k].raises
    /\ l_served[k].status_code = 200
    /\ l_served[k].json.type = "list"

Urls == [k \in 1..Len(l_out.requests) |-> l_out.requests[k].url]

\* C6: with an absent or empty artist, or an absent or empty title, the lookup
\* returns no result and issues no request, whatever the duration.
C6_NoQueryNoRequest ==
    Returned /\ (l_query.artist \in {None, <<>>} \/ l_query.title \in {None, <<>>})
        => l_out.result = None /\ l_out.requests = <<>>

\* an empty title with an artist and a duration, looked up
C6_Witness ==
    /\ Returned
    /\ l_query.artist = <<"a">>
    /\ l_query.title = <<>>
    /\ l_query.duration = 215

\* C7: when /get answers 200 with a non-empty syncedLyrics or plainLyrics the
\* lookup returns that text, syncedLyrics first, and /search is not issued.
C7_GetHit ==
    /\ Returned
    /\ Is200Object(1)
    /\ (l_served[1].json.obj.syncedLyrics \notin {None, <<>>}
        \/ l_served[1].json.obj.plainLyrics \notin {None, <<>>})
    => /\ l_out.result = IF l_served[1].json.obj.syncedLyrics \notin {None, <<>>}
                         THEN l_served[1].json.obj.syncedLyrics
                         ELSE l_served[1].json.obj.plainLyrics
       /\ Urls = <<"/get">>

\* /get answered with both fields
C7_Witness ==
    /\ Returned
    /\ Is200Object(1)
    /\ l_served[1].json.obj = Obj(<<"x">>, <<"p">>)
    /\ l_out.result = <<"x">>

\* /get yielded nothing: a non-200 status, or a 200 object without lyrics
GetMiss ==
    /\ Len(l_served) >= 1
    /\ ~l_served[1].raises
    /\ \/ l_served[1].status_code # 200
       \/ /\ l_served[1].json.type = "object"
          /\ l_served[1].json.obj.syncedLyrics \in {None, <<>>}
          /\ l_served[1].json.obj.plainLyrics \in {None, <<>>}

\* the candidate the claim selects
RefBest(items) ==
    LET withSynced == {k \in 1..Len(items) : items[k].syncedLyrics \notin {None, <<>>}}
    IN  IF withSynced # {} THEN items[Min(withSynced)] ELSE items[1]

\* C8: after a /get that yields nothing, a /search answering 200 with a
\* non-empty list makes the lookup return the lyrics of the first candidate
\* with syncedLyrics, else of the first candidate: its syncedLyrics if
\* non-empty, else its plainLyrics.
C8_SearchSelection ==
    Returned /\ GetMiss
    => /\ Urls = <<"/get", "/search">>
       /\ (Is200List(2) /\ l_served[2].json.items # <<>>)
          => LET best == RefBest(l_served[2].json.items)
             IN  /\ l_out.result = IF best.syncedLyrics \notin {None, <<>>}
                                   THEN best.syncedLyrics
                                   ELSE best.plainLyrics
                 /\ (best.syncedLyrics \in {None, <<>>}
                     /\ best.plainLyrics \in {None, <<>>}
                     => l_out.result \in {None, <<>>})

\* a search whose second candidate is the first with syncedLyrics
C8_Witness ==
    /\ Returned
    /\ GetMiss
    /\ Is200List(2)
    /\ Len(l_served[2].json.items) = 2
    /\ l_served[2].json.items[1] = Obj(None, <<"p">>)
    /\ l_served[2].json.items[2] = Obj(<<"y">>, None)
    /\ l_out.result = <<"y">>

\* a failure of the /get step: the request raised, or a non-200 status, or a
\* 200 whose body is not the JSON object expected
GetFailed ==
    /\ Len(l_served) >= 1
    /\ \/ l_served[1].raises
       \/ l_served[1].status_code # 200
       \/ l_served[1].json.type # "object"

\* C9: a failure of the /get step counts as no result for that step only:
\* /search is still issued, and when it answers 200 with candidates the
\* lookup returns the selected candidate's lyrics.
C9_GetFailureFallsBack ==
    Returned /\ GetFailed
    => /\ Urls = <<"/get", "/search">>
       /\ (Is200List(2) /\ l_served[2].json.items # <<>>)
          => l_out.result = LyricsOf(RefBest(l_served[2].json.items))

-----------------------------------------------------------------------------
(* Properties of the batch operations *)

\* the file the scan loop is about to process
Scanning == pc = "scan" /\ i <= Len(audio_files)
Current == audio_files[i]

\* C1: the values a batch operation returns satisfy
\* embedded + skipped + len(failed) <= total.
C1_BatchInvariant ==
    pc = "returned" => result.embedded + skipped + Len(result.failed) <= result.total

\* C2: an error raised while one file is processed never leaves the batch
\* operation: the scan goes on and the operation returns its result.
C2_ErrorsCaughtPerFile == pc # "raised"

\* the audio files of the directory whose companion .lrc existed when the
\* batch began (a companion that is "absent" never was there)
Candidates ==
    {k \in 1..Len(audio_files) : fs[audio_files[k]].lrc # "absent"}

\* C3 as stated: in local mode a file without a companion .lrc is excluded
\* from the returned total.
C3_NoCompanionExcludedFromTotal ==
    pc = "returned" /\ mode = "embed_lrc" => result.total = Cardinality(Candidates)

\* C3, amended: in local mode the step on an audio file without a companion
\* .lrc changes no file and neither count nor the failed list, and the
\* returned total counts every flac, mp3 and m4a file the walk visited,
\* such files included.
C3_NoCompanionLeftAlone ==
    /\ [](pc = "returned" /\ mode = "embed_lrc"
          => result.total = Cardinality({k \in DOMAIN fs : fs[k].ext \in {"flac", "mp3", "m4a"}}))
    /\ [][Scanning /\ mode = "embed_lrc" /\ fs[Current].lrc = "absent"
          => /\ fs' = fs
             /\ embedded' = embedded
             /\ failed' = failed
             /\ skipped' = skipped
             /\ pc' = pc]_vars

\* a local batch that returned a total of two for one file with a companion,
\* embedded, and one without
C3_Witness ==
    /\ pc = "returned"
    /\ mode = "embed_lrc"
    /\ Len(fs) = 2
    /\ fs[1].lrc = "absent" /\ fs[1].ext = "mp3"
    /\ fs[2].lrc = "present"
    /\ result = [total |-> 2, embedded |-> 1, failed |-> <<>>]

\* C4: called with a directory that does not exist, a batch operation does
\* not return a result (it raises before any file is processed).
C4_MissingDirectoryRaises == pc = "returned" => dir_exists

\* C5: with skip-existing set, the step on a candidate file that reports
\* embedded lyrics (the load succeeds and the file holds lyrics) writes
\* nothing, adds one to the skip count and leaves embedded, failed and the
\* deferred list as they were.
C5_SkipExistingWritesNothing ==
    [][/\ Scanning
       /\ skip_existing
       /\ mode = "embed_lrc" => fs[Current].lrc = "present"
       /\ fs[Current].ext \in {"flac", "mp3", "m4a"}
       /\ fs[Current].lyrics # None
       /\ last'.load = "ok"
       => /\ fs' = fs
          /\ skipped' = skipped + 1
          /\ embedded' = embedded
          /\ failed' = failed
          /\ needs_manual' = needs_manual]_vars

\* a local batch that skipped a file whose lyrics differ from its companion's
C5_Witness ==
    /\ mode = "embed_lrc"
    /\ last.event = "skipped"
    /\ skipped = 1
    /\ fs[last.file].lyrics = OldText
    /\ fs[last.file].lrc = "present"
    /\ OldText # LrcText

-----------------------------------------------------------------------------
(* Properties of embed_lyrics_text_to_file *)

\* the calls k and k + 1 were both made and both returned
Twice(k) ==
    /\ k + 1 <= Len(w_calls)
    /\ ~w_calls[k].raised
    /\ ~w_calls[k + 1].raised

\* what the skip test sees of a file: the object its loader gives (no line
\* loads a file of another extension, and has_embedded_lyrics is False of
\* every other object)
Loaded(file) == LoadAudio(file, "ok")
\* the sibling _converted.mp3 of a file, loaded as the MP3 file it is
LoadedConverted(file) == [type |-> "AudioFile", lyrics |-> file.conv]

\* C11 as stated: for every container kind, after two calls with the same
\* payload has_embedded_lyrics is true of the file the calls were made on,
\* and the text it stores after the second call is the text after the first.
C11_TwiceLeavesLyrics ==
    \A k \in 1..Len(w_calls) :
      Twice(k) => /\ has_embedded_lyrics(Loaded(w_calls[k + 1].after))
                  /\ w_calls[k + 1].after.lyrics = w_calls[k].after.lyrics

\* C11, amended: after two calls with the same payload, a flac, mp3 or m4a
\* file reports embedded lyrics and stores the payload, as it did after the
\* first call; a file of another extension is as it was before the calls and
\* reports no lyrics, and it is its sibling _converted.mp3 that reports
\* lyrics and stores the payload, as it did after the first call.
C11_TwiceLeavesLyricsWhereWritten ==
    \A k \in 1..Len(w_calls) :
      Twice(k) =>
        IF w_file.ext \in NativeExts
        THEN /\ has_embedded_lyrics(Loaded(w_calls[k + 1].after))
             /\ w_calls[k + 1].after.lyrics = w_payload
             /\ w_calls[k].after.lyrics = w_payload
             /\ w_calls[k + 1].after.conv = w_calls[k].before.conv
        ELSE /\ ~has_embedded_lyrics(Loaded(w_calls[k + 1].after))
             /\ w_calls[k + 1].after.lyrics = w_calls[k].before.lyrics
             /\ has_embedded_lyrics(LoadedConverted(w_calls[k + 1].after))
             /\ w_calls[k + 1].after.conv = w_payload
             /\ w_calls[k].after.conv = w_payload
             /\ w_calls[k].converted /\ w_calls[k + 1].converted

\* two calls that returned, on a wav file whose sibling held other lyrics
C11_Witness ==
    /\ Twice(1)
    /\ w_calls[1].before.ext = "wav"
    /\ w_calls[1].before.conv = OldText
    /\ w_payload = LrcText
    /\ w_file.conv = LrcText
    /\ w_file.lyrics = None

\* C13: a call on a file whose extension is not flac, mp3 or m4a leaves that
\* file as it was; when it returns, it returns the path of the sibling
\* _converted.mp3, which holds the lyrics; when it raises (the transcoder
\* failed, or tagging its output did), it leaves no output behind: the
\* sibling is as it was before the call.
C13_ConvertedOrNothing ==
    \A k \in 1..Len(w_calls) :
      w_calls[k].before.ext \notin NativeExts =>
        /\ w_calls[k].after.ext = w_calls[k].before.ext
        /\ w_calls[k].after.lyrics = w_calls[k].before.lyrics
        /\ ~w_calls[k].raised => /\ w_calls[k].converted
                                 /\ w_calls[k].after.conv = w_payload
        /\ w_calls[k].raised => /\ ~w_calls[k].converted
                                /\ w_calls[k].after.conv = w_calls[k].before.conv

-----------------------------------------------------------------------------
(* Properties of the companion file and of the deferred files *)

\* the events of a step of embed_lrc whose write returned
WriteReturned == {"embedded", "embedded_reduced", "remove_failed"}

\* C12: the step of embed_lrc on a candidate leaves its companion .lrc
\* renamed to .failed exactly when reading it or writing the lyrics raised
\* (the file is then in failed and its audio file holds what it held),
\* removed exactly when the write returned and reduce_lrc is set, and in
\* place, unchanged, otherwise. (Steps that end the batch with an exception
\* are left aside here.)
C12_CompanionFate ==
    [][Scanning /\ mode = "embed_lrc" /\ fs[Current].lrc = "present"
       /\ pc' # "raised"
       => /\ (fs'[Current].lrc = "failed")
               <=> (last'.event \in {"read_failed", "write_failed"})
          /\ (fs'[Current].lrc = "failed")
               => /\ \E k \in 1..Len(failed') : failed'[k] = Current
                  /\ fs'[Current].lyrics = fs[Current].lyrics
          /\ (fs'[Current].lrc = "removed")
               <=> (reduce_lrc /\ last'.event \in WriteReturned)
          /\ fs'[Current].lrc \in {"failed", "removed", "present"}]_vars

\* a field that is missing: None or the empty string
Missing(x) == x = None \/ x = <<>>

\* the file the resolver is about to ask about
Resolving == pc = "manual" /\ j <= Len(needs_manual)

\* the lyrics a call of embed_lyrics_text_to_file stored for a file
Stored(file) == IF file.ext \in NativeExts THEN file.lyrics ELSE file.conv

\* C14: in embed_lrclib_batch, the step of the scan on a file whose artist or
\* title is missing after the tags and the file name were read defers it
\* (and only such a file is deferred): no request is issued, nothing is
\* written, failed and embedded stay as they were. A step of the resolver on a
\* deferred file never adds to failed; it adds one to its count exactly when
\* both answers were given, the lookup returned lyrics and the write
\* returned, the file then storing those lyrics; when an answer is cancelled
\* it issues no request, writes nothing and counts nothing; when the lookup
\* finds nothing it writes nothing and counts nothing. The count is added to
\* embedded when the resolver returns.
C14_DeferredThenResolved ==
    /\ [][Scanning /\ mode = "embed_lrclib_batch"
          /\ last'.event \notin {"skipped", "load_raised"}
          => /\ (Missing(last'.identity.artist) \/ Missing(last'.identity.title))
                  <=> (last'.event = "deferred")
             /\ last'.event = "deferred"
                  => /\ last'.requests = <<>>
                     /\ needs_manual' = Append(needs_manual, Current)
                     /\ fs' = fs
                     /\ failed' = failed
                     /\ embedded' = embedded
             /\ last'.event # "deferred" => needs_manual' = needs_manual]_vars
    /\ [][Resolving
          => /\ failed' = failed
             /\ embedded' = embedded
             /\ (count' = count + 1) <=> (last'.event = "embedded")
             /\ count' \in {count, count + 1}
             /\ last'.event = "embedded"
                  => /\ last'.requests # <<>>
                     /\ Stored(fs'[needs_manual[j]]) = LookupText
             /\ last'.event \in {"artist_cancelled", "title_cancelled"}
                  => last'.requests = <<>> /\ fs' = fs
             /\ last'.event = "not_found" => fs' = fs]_vars
    /\ [][pc = "manual" /\ pc' = "returned"
          => /\ embedded' = embedded + count
             /\ result'.embedded = embedded + count
             /\ result'.failed = failed]_vars

\* a batch that returned after its one file, named " - b" and without tags,
\* was deferred and then embedded by the resolver
C14_Witness ==
    /\ pc = "returned"
    /\ mode = "embed_lrclib_batch"
    /\ needs_manual = <<1>>
    /\ last.op = "manual"
    /\ last.event = "embedded"
    /\ result = [total |-> 1, embedded |-> 1, failed |-> <<>>]
    /\ Stored(fs[1]) = LookupText

\* C15: in embed_lrclib_batch the resolver is called at most once, only when
\* the scan has processed every file, exactly when a file was deferred, and
\* with the deferred files, each once and in the order of the scan; no step of
\* the scan follows a prompt, and the resolver asks about the files it was
\* given in that order before it returns.
C15_ResolverOnceAfterScan ==
    /\ [](pc = "manual" => mode = "embed_lrclib_batch")
    /\ [](last.op = "manual" => pc \in {"manual", "returned"})
    /\ [](\A a, b \in 1..Len(needs_manual) :
            a < b => /\ needs_manual[a] < needs_manual[b]
                     /\ \E x, y \in 1..Len(audio_files) :
                          /\ x < y /\ y < i
                          /\ audio_files[x] = needs_manual[a]
                          /\ audio_files[y] = needs_manual[b])
    /\ [][pc # "manual" /\ pc' = "manual"
          => /\ pc = "scan"
             /\ i > Len(audio_files)
             /\ needs_manual # <<>>
             /\ j' = 1]_vars
    /\ [][pc = "manual"
          => /\ pc' \in {"manual", "returned"}
             /\ i' = i
             /\ needs_manual' = needs_manual
             /\ pc' = "manual" => last'.op = "manual" /\ last'.file = needs_manual[j]
                                  /\ j' = j + 1
             /\ pc' = "returned" => j > Len(needs_manual)]_vars
    /\ [][pc = "returned" => pc' = "returned"]_vars
    /\ [][mode = "embed_lrclib_batch" /\ pc # "returned" /\ pc' = "returned"
          => (pc = "manual" <=> needs_manual # <<>>)]_vars

\* the resolver, given two deferred files after a scan of two, has asked
\* about the first and is about to ask about the second
C15_Witness ==
    /\ pc = "manual"
    /\ Len(audio_files) = 2
    /\ needs_manual = <<1, 2>>
    /\ i = 3
    /\ j = 2
    /\ last.op = "manual"
    /\ last.file = 1

\* C16: in both batch operations a file lands in at most one bucket: a step
\* of the scan that does not end the batch with an exception adds to at most
\* one of embedded and failed, no file is named twice in failed, and no file
\* named in failed is also handed to the resolver, which is the only other
\* place where a file is counted as embedded.
C16_OneBucketPerFile ==
    /\ [](\A a, b \in 1..Len(failed) : failed[a] = failed[b] => a = b)
    /\ [](\A a \in 1..Len(failed), b \in 1..Len(needs_manual) :
            failed[a] # needs_manual[b])
    /\ [][Scanning /\ pc' # "raised"
          => (embedded' - embedded) + (Len(failed') - Len(failed)) <= 1]_vars

====
